---- MODULE Spec2Model ----
(***************************************************************************)
(* Job orchestration of the Hunyuan3D servers of constructai-platform:     *)
(*   src/hunyuan3d/real_hunyuan3d_server.py  (variant "real")              *)
(*   src/hunyuan3d/test_server.py            (variant "test")              *)
(*   src/python-services/hunyuan3d-server.py (variant "services")          *)
(*                                                                         *)
(* Each server is one process with one asyncio event loop.  A coroutine    *)
(* runs without interruption between two awaits that really suspend, so    *)
(* the model gives every coroutine a program counter and lets the variable *)
(* `loop` name the task that is running: a step of another handler is      *)
(* possible only when loop = 0.  Every write to the job store is a step of *)
(* its own, so that the sequence of writes is visible to the properties,   *)
(* while only the states with loop = 0 can be seen by another request.     *)
(***************************************************************************)
EXTENDS Integers, Sequences, FiniteSets, TLC

\* Number of job ids the server may issue.
MaxJobs == 2

JobIds == 1..MaxJobs
\* Ids a client may ask for: the issued ones and 0, which is never issued.
AskIds == 0..MaxJobs

VARIABLES
    variant,            \* which server the process runs: "real" or "test"
    cuda_available,     \* torch.cuda.is_available() of the machine
    job_status,         \* real server: job id -> dict
    jobs,               \* test server: job id -> dict
    conversion_jobs,    \* python-services server: job id -> dict
    background_remover, \* real server globals: TRUE when not None
    shape_pipeline,
    texture_pipeline,
    model_loaded,
    task,               \* job id -> frame of its background coroutine
    loop,               \* the job whose task is running, 0 when none is
    files,              \* the paths that exist on disk
    analyze,            \* frame of the /analyze request in flight
    init_count,         \* history: successful initialisations per pipeline
    init_raised,        \* history: some pipeline initialisation has raised
    resp                \* the response produced by the last request, if any

vars == <<variant, cuda_available, conversion_jobs, job_status, jobs, background_remover,
          shape_pipeline, texture_pipeline, model_loaded, task, loop, files,
          analyze, init_count, init_raised, resp>>

models == <<background_remover, shape_pipeline, texture_pipeline,
            model_loaded, init_count, init_raised>>

----------------------------------------------------------------------------
\* Python helpers

\* dict.update: the keys of u are written, every other key of d is kept.
Update(d, u) ==
    [k \in (DOMAIN d) \cup (DOMAIN u) |-> IF k \in DOMAIN u THEN u[k] ELSE d[k]]

\* dict.get(key, default)
Get(d, k, default) ==
    IF k \in DOMAIN d THEN d[k] ELSE default

\* The keys of `keys` the dict holds, with their values.
Restrict(job, keys) ==
    [k \in (DOMAIN job) \cap keys |-> job[k]]

\* content_type.startswith('image/'); a part without a Content-Type header
\* has content_type None, on which startswith raises AttributeError.
ContentTypes == {"image/png", "application/pdf", "None"}

\* d[k] = v: the key is added, or its value replaced.
Assign(d, k, v) ==
    [x \in (DOMAIN d) \cup {k} |-> IF x = k THEN v ELSE d[x]]

StartsWithImage(ct) ==
    ct = "image/png"

Min(a, b) ==
    IF a < b THEN a ELSE b

\* Faulty variant of FreshIds: the new id may be one that is in use.
FreshIdsColliding(store) ==
    JobIds

\* str(uuid.uuid4()): an id no job has.  Ids are opaque, so the least unused
\* one stands for any fresh one.
FreshIds(store) ==
    LET unused == JobIds \ DOMAIN store
    IN  {j \in unused : \A k \in unused : j <= k}

NoResp == [op |-> "none"]
NoTask == [pc |-> "none"]
Returned == [pc |-> "returned"]

----------------------------------------------------------------------------
\* Initial state: module import and RealHunyuan3DServer.__init__

Init ==
    /\ variant \in {"real", "test", "services"}
    /\ cuda_available \in BOOLEAN
    /\ (variant # "real" => cuda_available = FALSE)
    /\ job_status = << >>
    /\ jobs = << >>
    /\ conversion_jobs = << >>
    /\ background_remover = FALSE
    /\ shape_pipeline = FALSE
    /\ texture_pipeline = FALSE
    /\ model_loaded = FALSE
    /\ task = [j \in JobIds |-> NoTask]
    /\ loop = 0
    /\ files = {}
    /\ analyze = [pc |-> "idle"]
    /\ init_count = [c \in {"background_remover", "shape_pipeline",
                            "texture_pipeline"} |-> 0]
    /\ init_raised = FALSE
    /\ resp = NoResp

----------------------------------------------------------------------------
\* The event loop

\* No task is running and the last response has been sent: the loop can
\* start a handler or resume a suspended task.
Idle ==
    loop = 0 /\ resp = NoResp

\* The server sends the response the handler returned.  `resp` is an output
\* only (no handler reads it), so sending it before the next handler or task
\* step hides no behaviour of the other variables.
send_response ==
    /\ loop = 0
    /\ resp # NoResp
    /\ resp' = NoResp
    /\ UNCHANGED <<variant, cuda_available, conversion_jobs, job_status, jobs, models, task,
                   loop, files, analyze>>

----------------------------------------------------------------------------
\* Real server: model loading

\* The faults a call of load_hunyuan3d_models can meet: each initialiser it
\* really runs may raise; enable_flashvdm raises after shape_pipeline has
\* been assigned.
LoadFaults(enable_texture) ==
    {"none"}
    \cup (IF ~background_remover THEN {"background_remover"} ELSE {})
    \cup (IF ~shape_pipeline THEN {"shape_pipeline", "enable_flashvdm"} ELSE {})
    \cup (IF enable_texture /\ ~texture_pipeline THEN {"texture_pipeline"} ELSE {})

\* The model_path arguments: the default, and another one.
DefaultModelPath == "tencent/Hunyuan3D-2"

ModelPaths == {DefaultModelPath, "local/Hunyuan3D-2"}

\* Faulty variant of InitRuns: a call with another model_path than the
\* default switches the models, i.e. initialises them again.
InitRunsSwitching(c, model_path, enable_texture, fault) ==
    CASE c = "background_remover" ->
            ~background_remover \/ model_path # DefaultModelPath
      [] c = "shape_pipeline" ->
            /\ ~shape_pipeline \/ model_path # DefaultModelPath
            /\ fault # "background_remover"
      [] c = "texture_pipeline" ->
            /\ enable_texture
            /\ ~texture_pipeline \/ model_path # DefaultModelPath
            /\ fault \notin {"background_remover", "shape_pipeline",
                             "enable_flashvdm"}

\* Faulty variant of InitRuns: the `is None` checks are missing.
InitRunsUnguarded(c, model_path, enable_texture, fault) ==
    CASE c = "background_remover" -> TRUE
      [] c = "shape_pipeline" -> fault # "background_remover"
      [] c = "texture_pipeline" ->
            /\ enable_texture
            /\ fault \notin {"background_remover", "shape_pipeline",
                             "enable_flashvdm"}

\* Whether the initialiser of pipeline c is run: its global is None, it is the
\* texture pipeline only when requested, and no earlier statement has raised.
InitRuns(c, model_path, enable_texture, fault) ==
    CASE c = "background_remover" -> ~background_remover
      [] c = "shape_pipeline" ->
            ~shape_pipeline /\ fault # "background_remover"
      [] c = "texture_pipeline" ->
            /\ enable_texture
            /\ ~texture_pipeline
            /\ fault \notin {"background_remover", "shape_pipeline",
                             "enable_flashvdm"}

\* Faulty variant of InitDone: the shape pipeline is not assigned.
InitDoneWithoutShape(c, model_path, enable_texture, fault) ==
    /\ InitRuns(c, model_path, enable_texture, fault)
    /\ fault # c
    /\ c # "shape_pipeline"

\* Whether pipeline c is assigned by this call.
InitDone(c, model_path, enable_texture, fault) ==
    InitRuns(c, model_path, enable_texture, fault) /\ fault # c

\* Faulty variant of ModelLoadedAfter: the flag is set whether or not an
\* initialiser raised.
ModelLoadedAfterAlways(fault) ==
    TRUE

\* model_loaded = True is the last statement of the try block.
ModelLoadedAfter(fault) ==
    model_loaded \/ fault = "none"

load_hunyuan3d_models(model_path, enable_texture, fault) ==
    /\ background_remover' =
          (background_remover
             \/ InitDone("background_remover", model_path, enable_texture,
                         fault))
    /\ shape_pipeline' =
          (shape_pipeline
             \/ InitDone("shape_pipeline", model_path, enable_texture, fault))
    /\ texture_pipeline' =
          (texture_pipeline
             \/ InitDone("texture_pipeline", model_path, enable_texture,
                         fault))
    /\ model_loaded' = ModelLoadedAfter(fault)
    /\ init_count' =
          [c \in DOMAIN init_count |->
              IF InitDone(c, model_path, enable_texture, fault)
              THEN Min(init_count[c] + 1, 2)
              ELSE init_count[c]]
    /\ init_raised' = (init_raised \/ fault # "none")

\* ensure_models_loaded: returns at once when model_loaded, else loads with
\* the default arguments (enable_texture = True).
ensure_models_loaded(fault) ==
    IF model_loaded
    THEN fault = "none" /\ UNCHANGED models
    ELSE load_hunyuan3d_models(DefaultModelPath, TRUE, fault)

EnsureFaults ==
    IF model_loaded THEN {"none"} ELSE LoadFaults(TRUE)

\* The pipelines for which the call logs "Loading ...", i.e. whose
\* initialiser it runs.
LoadingLogged(model_path, enable_texture, fault) ==
    {c \in DOMAIN init_count : InitRuns(c, model_path, enable_texture, fault)}

\* POST /load_models
load_models(model_path, enable_texture) ==
    /\ variant = "real"
    /\ Idle
    /\ \E fault \in LoadFaults(enable_texture) :
          /\ load_hunyuan3d_models(model_path, enable_texture, fault)
          /\ resp' = [op |-> "load_models",
                      code |-> IF fault = "none" THEN 200 ELSE 500,
                      model_path |-> model_path,
                      texture_enabled |-> enable_texture,
                      log |-> LoadingLogged(model_path, enable_texture,
                                            fault)]
    /\ UNCHANGED <<variant, cuda_available, conversion_jobs, job_status, jobs, task, loop,
                   files, analyze>>

----------------------------------------------------------------------------
\* Real server: POST /generate3d

\* The frame of process_real_3d_generation when the task is scheduled: its
\* arguments and its locals (mesh, output_paths), plus the exception caught.
NewFrame(include_textures, max_face_count) ==
    [pc |-> "scheduled", include_textures |-> include_textures,
     max_face_count |-> max_face_count, mesh |-> "none", faces |-> 0,
     output_paths |-> << >>, ensured |-> "no", exc |-> "none"]

\* The max_face_count values of the submissions: a count below the face
\* counts the servers' generators produce, so that a limit has to act.
MaxFaceCounts == {5000}

\* Faulty variant of QueuedJob: the job is stored as already processing.
QueuedJobStarted ==
    [status |-> "processing", progress |-> 5,
     message |-> "Job queued for processing", created_at |-> "now"]

\* The dict a submission stores (model_info, a constant, is left out).
QueuedJob ==
    [status |-> "queued", progress |-> 0,
     message |-> "Job queued for processing", created_at |-> "now"]

\* The handler has no await: it runs as one step.  The HTTPException(400) is
\* raised inside the try block whose `except Exception` turns every
\* exception into HTTPException(500).
generate_3d_model(content_type, include_textures, max_face_count) ==
    /\ variant = "real"
    /\ Idle
    /\ IF StartsWithImage(content_type)
       THEN \E job_id \in FreshIds(job_status) :
               /\ job_status' = Assign(job_status, job_id, QueuedJob)
               /\ task' = [task EXCEPT
                     ![job_id] = NewFrame(include_textures, max_face_count)]
               /\ resp' = [op |-> "generate3d", code |-> 200,
                           content_type |-> content_type,
                           job_id |-> job_id, status |-> "queued"]
       ELSE /\ resp' = [op |-> "generate3d", code |-> 500,
                        content_type |-> content_type]
            /\ UNCHANGED <<job_status, task>>
    /\ UNCHANGED <<variant, cuda_available, conversion_jobs, jobs, models, loop, files, analyze>>

----------------------------------------------------------------------------
\* Real server: process_real_3d_generation, one step per write and per stage

\* Faulty variant of SetJob: the update is applied to every stored job.
SetJobOfAll(j, u) ==
    job_status' = [k \in DOMAIN job_status |-> Update(job_status[k], u)]

\* job_status[job_id].update(u)
SetJob(j, u) ==
    job_status' = [job_status EXCEPT ![j] = Update(@, u)]

Goto(j, p) ==
    task' = [task EXCEPT ![j].pc = p]

\* A stage raised: control goes to the except clause of the task.
Raise(j, stage) ==
    task' = [task EXCEPT ![j].pc = "except", ![j].exc = stage]

\* The frame is the running task's, and no request handler is served.
Running(j, at) ==
    /\ variant = "real"
    /\ j \in DOMAIN job_status
    /\ loop = j
    /\ task[j].pc = at

\* First write, then `await image.read()` suspends the task.
process_start(j) ==
    /\ variant = "real"
    /\ Idle
    /\ task[j].pc = "scheduled"
    /\ SetJob(j, [status |-> "processing", progress |-> 5,
                  message |-> "Loading and preprocessing image..."])
    /\ Goto(j, "read")
    /\ UNCHANGED <<resp, variant, cuda_available, conversion_jobs, jobs, models, loop, files, analyze>>

\* Stage 1: the read completes and the image is decoded; from here to its
\* end the task has no await that suspends.
stage_decode(j) ==
    /\ variant = "real"
    /\ Idle
    /\ task[j].pc = "read"
    /\ loop' = j
    /\ \E ok \in BOOLEAN :
          IF ok THEN Goto(j, "w10") ELSE Raise(j, "decode")
    /\ UNCHANGED <<resp, variant, cuda_available, conversion_jobs, job_status, jobs, models, files,
                   analyze>>

\* Faulty variant of Checkpoints: the 15 write is followed by the mesh
\* generation, the background removal is left out.
CheckpointsWithoutBackground(include_textures) ==
    { [at |-> "w10", progress |-> 10, next |-> "ensure",
       message |-> "Ensuring models are loaded..."],
      [at |-> "w15", progress |-> 15, next |-> "mesh",
       message |-> "Removing background..."],
      [at |-> "w25", progress |-> 25, next |-> "mesh",
       message |-> "Generating 3D mesh using Hunyuan3D-DiT..."],
      [at |-> "w70", progress |-> 70, next |-> "cleanup",
       message |-> "Post-processing mesh..."],
      [at |-> "w80", progress |-> 80, next |-> "texture",
       message |-> IF include_textures THEN "Generating textures..."
                   ELSE "Finalizing mesh..."],
      [at |-> "w90", progress |-> 90, next |-> "save",
       message |-> "Saving results..."] }

\* The progress writes between the stages.
Checkpoints(include_textures) ==
    { [at |-> "w10", progress |-> 10, next |-> "ensure",
       message |-> "Ensuring models are loaded..."],
      [at |-> "w15", progress |-> 15, next |-> "background",
       message |-> "Removing background..."],
      [at |-> "w25", progress |-> 25, next |-> "mesh",
       message |-> "Generating 3D mesh using Hunyuan3D-DiT..."],
      [at |-> "w70", progress |-> 70, next |-> "cleanup",
       message |-> "Post-processing mesh..."],
      [at |-> "w80", progress |-> 80, next |-> "texture",
       message |-> IF include_textures THEN "Generating textures..."
                   ELSE "Finalizing mesh..."],
      [at |-> "w90", progress |-> 90, next |-> "save",
       message |-> "Saving results..."] }

\* Faulty variant of ProgressUpdate: the 70 of the post-processing checkpoint
\* written as 7.
ProgressUpdateTypo(c) ==
    [progress |-> IF c.progress = 70 THEN 7 ELSE c.progress,
     message |-> c.message]

ProgressUpdate(c) ==
    [progress |-> c.progress, message |-> c.message]

process_checkpoint(j) ==
    /\ loop = j
    /\ task[j].pc \in {"w10", "w15", "w25", "w70", "w80", "w90"}
    /\ \E c \in Checkpoints(task[j].include_textures) :
          /\ Running(j, c.at)
          /\ SetJob(j, ProgressUpdate(c))
          /\ Goto(j, c.next)
    /\ UNCHANGED <<resp, variant, cuda_available, conversion_jobs, jobs, models, loop, files, analyze>>

\* Stage 2: await self.ensure_models_loaded()
stage_ensure(j) ==
    /\ Running(j, "ensure")
    /\ \E fault \in EnsureFaults :
          /\ ensure_models_loaded(fault)
          /\ task' = [task EXCEPT
                ![j].pc = IF fault = "none" THEN "w15" ELSE "except",
                ![j].exc = IF fault = "none" THEN "none" ELSE "ensure",
                ![j].ensured = IF model_loaded THEN "already"
                               ELSE IF fault = "none" THEN "loaded"
                               ELSE "raised"]
    /\ UNCHANGED <<resp, variant, cuda_available, conversion_jobs, job_status, jobs, loop, files,
                   analyze>>

\* Stage 3: background removal, skipped when background_remover is None.
stage_background(j) ==
    /\ Running(j, "background")
    /\ \E ok \in (IF background_remover THEN BOOLEAN ELSE {TRUE}) :
          IF ok THEN Goto(j, "w25") ELSE Raise(j, "background")
    /\ UNCHANGED <<resp, variant, cuda_available, conversion_jobs, job_status, jobs, models, loop,
                   files, analyze>>

\* The meshes the pipelines can hand back: a trimesh.Trimesh always has
\* `visual`; whether visual has `material` depends on the kind of visual.
MeshKinds == {"color", "textured"}

\* len(mesh.faces) of the meshes the shape pipeline hands back.
MeshFaces == {20000}

\* Stage 4: shape_pipeline(...); calling None raises TypeError.
stage_mesh(j) ==
    /\ Running(j, "mesh")
    /\ \E ok \in (IF shape_pipeline THEN BOOLEAN ELSE {FALSE}) :
          IF ok
          THEN \E m \in MeshKinds, f \in MeshFaces :
                  task' = [task EXCEPT
                     ![j].pc = "w70", ![j].mesh = m, ![j].faces = f]
          ELSE Raise(j, "mesh")
    /\ UNCHANGED <<resp, variant, cuda_available, conversion_jobs, job_status, jobs, models, loop,
                   files, analyze>>

\* FaceReducer()(mesh, max_facenum): a mesh that has more faces than
\* max_facenum is decimated to max_facenum faces, another one is kept.
FaceReducer(faces, max_facenum) ==
    IF max_facenum > faces THEN faces ELSE max_facenum

\* Stage 5: FloaterRemover, DegenerateFaceRemover, FaceReducer
stage_cleanup(j) ==
    /\ Running(j, "cleanup")
    /\ \E ok \in BOOLEAN :
          IF ok
          THEN task' = [task EXCEPT
                  ![j].pc = "w80",
                  ![j].faces = FaceReducer(@, task[j].max_face_count)]
          ELSE Raise(j, "cleanup")
    /\ UNCHANGED <<resp, variant, cuda_available, conversion_jobs, job_status, jobs, models, loop,
                   files, analyze>>

\* Faulty variant of RunsTexture: the pipeline is called without looking
\* whether it is loaded.
RunsTextureUnchecked(include_textures) ==
    include_textures

\* `if include_textures and texture_pipeline:`
RunsTexture(include_textures) ==
    include_textures /\ texture_pipeline

\* Stage 6: texture synthesis, only if requested and the pipeline is loaded
\* (calling a pipeline that is None raises TypeError).
stage_texture(j) ==
    /\ Running(j, "texture")
    /\ IF RunsTexture(task[j].include_textures)
       THEN \E ok \in (IF texture_pipeline THEN BOOLEAN ELSE {FALSE}) :
               IF ok
               THEN \E m \in MeshKinds :
                       task' = [task EXCEPT ![j].pc = "w90", ![j].mesh = m]
               ELSE Raise(j, "texture")
       ELSE Goto(j, "w90")
    /\ UNCHANGED <<resp, variant, cuda_available, conversion_jobs, job_status, jobs, models, loop,
                   files, analyze>>

\* The files save_real_generated_model writes, in the order of the writes.
SavedNames == <<"glb", "obj", "processed.png">>

\* A file under OUTPUT_DIR / job_id
Path(j, name) ==
    [dir |-> j, name |-> name]

\* Faulty variant of SavedFiles: the processed image is not saved.
SavedFilesWithoutImage(j, written) ==
    {Path(j, SavedNames[i]) : i \in 1..Min(written, 2)}

\* save_real_generated_model writes glb, obj and the processed image in this
\* order; `written` says how many of the three writes succeed.
SavedFiles(j, written) ==
    {Path(j, SavedNames[i]) : i \in 1..written}

\* The dict it returns: the three paths and the three urls, and the texture
\* entries when mesh.visual has `material` (no texture file is written).
SavedPaths(j, mesh) ==
    [model_glb_path |-> Path(j, "glb"), model_obj_path |-> Path(j, "obj"),
     image_path |-> Path(j, "processed.png"),
     model_url |-> "model_glb", obj_url |-> "model_obj", image_url |-> "image"]
    @@ (IF mesh = "textured"
        THEN [texture_path |-> Path(j, "texture.png"), texture_url |-> "texture"]
        ELSE << >>)

\* Stage 7: await self.save_real_generated_model(...); it has no await of its
\* own and re-raises what a write raises.
stage_save(j) ==
    /\ Running(j, "save")
    /\ \E written \in 0..Len(SavedNames) :
          /\ files' = files \cup SavedFiles(j, written)
          /\ IF written = Len(SavedNames)
             THEN task' = [task EXCEPT
                     ![j].pc = "stats",
                     ![j].output_paths = SavedPaths(j, task[j].mesh)]
             ELSE Raise(j, "save")
    /\ UNCHANGED <<resp, variant, cuda_available, conversion_jobs, job_status, jobs, models, loop,
                   analyze>>

\* Stage 8: mesh_stats; hasattr(mesh, 'visual') is true of a Trimesh.
stage_stats(j) ==
    /\ Running(j, "stats")
    /\ \E ok \in BOOLEAN :
          IF ok THEN Goto(j, "final") ELSE Raise(j, "stats")
    /\ UNCHANGED <<resp, variant, cuda_available, conversion_jobs, job_status, jobs, models, loop,
                   files, analyze>>

MeshStats(frame) ==
    [faces |-> frame.faces, has_texture |-> frame.include_textures]

\* The final status update of the try block.
CompletedUpdate(frame) ==
    [status |-> "completed", progress |-> 100,
     message |-> "Real Hunyuan3D-2 generation completed successfully!",
     completed_at |-> "now",
     result |-> frame.output_paths @@
                [mesh_stats |-> MeshStats(frame),
                 generation_params |->
                     [include_textures |-> frame.include_textures]]]

final_update(j) ==
    /\ Running(j, "final")
    /\ SetJob(j, CompletedUpdate(task[j]))
    /\ Goto(j, "cache")
    /\ UNCHANGED <<resp, variant, cuda_available, conversion_jobs, jobs, models, loop, files, analyze>>

\* Whether the last statement of the try block, torch.cuda.empty_cache(), is
\* run; when it is, it may raise (a CUDA error), still inside the try block.
ClearsCache ==
    cuda_available

clear_gpu_memory(j) ==
    /\ Running(j, "cache")
    /\ \E ok \in (IF ClearsCache THEN BOOLEAN ELSE {TRUE}) :
          IF ok
          THEN task' = [task EXCEPT ![j] = Returned] /\ loop' = 0
          ELSE Raise(j, "cache") /\ loop' = loop
    /\ UNCHANGED <<resp, variant, cuda_available, conversion_jobs, job_status, jobs, models, files,
                   analyze>>

\* Faulty variant of FailedUpdate: the except clause does not write the status.
FailedUpdateNoStatus ==
    [progress |-> 0, message |-> "Error", error |-> "traceback",
     failed_at |-> "now"]

\* Faulty variant of FailedUpdate: the except clause forgets failed_at.
FailedUpdateNoStamp ==
    [status |-> "failed", progress |-> 0, message |-> "Error",
     error |-> "traceback"]

\* The update of the except clause.
FailedUpdate ==
    [status |-> "failed", progress |-> 0, message |-> "Error",
     error |-> "traceback", failed_at |-> "now"]

\* except Exception: the job is written failed and the task returns.
except_handler(j) ==
    /\ Running(j, "except")
    /\ SetJob(j, FailedUpdate)
    /\ task' = [task EXCEPT ![j] = Returned]
    /\ loop' = 0
    /\ UNCHANGED <<resp, variant, cuda_available, conversion_jobs, jobs, models, files, analyze>>

process_real_3d_generation(j) ==
    \/ process_start(j)
    \/ stage_decode(j)
    \/ process_checkpoint(j)
    \/ stage_ensure(j)
    \/ stage_background(j)
    \/ stage_mesh(j)
    \/ stage_cleanup(j)
    \/ stage_texture(j)
    \/ stage_save(j)
    \/ stage_stats(j)
    \/ final_update(j)
    \/ clear_gpu_memory(j)
    \/ except_handler(j)

----------------------------------------------------------------------------
\* Real server: the read endpoints.  None of them has an await.

\* Faulty variant of StoreAfterRead: the handler notes on the record that
\* it was read.
StoreAfterReadMarked(job_id) ==
    IF job_id \in DOMAIN job_status
    THEN [job_status EXCEPT ![job_id] = Update(@, [read_at |-> "now"])]
    ELSE job_status

\* The store after a handler has looked job_id up: `job_id not in
\* job_status`, job_status[job_id] and .get(...) only read the dicts.
StoreAfterRead(job_id) ==
    job_status

\* GET /status/{job_id}
StatusResponse(job_id) ==
    IF job_id \notin DOMAIN job_status
    THEN [op |-> "status", code |-> 404, job_id |-> job_id]
    ELSE [op |-> "status", code |-> 200, job_id |-> job_id,
          body |-> job_status[job_id]]

get_job_status(job_id) ==
    /\ variant = "real"
    /\ Idle
    /\ resp' = StatusResponse(job_id)
    /\ job_status' = StoreAfterRead(job_id)
    /\ UNCHANGED <<variant, cuda_available, conversion_jobs, jobs, models, task, loop, files,
                   analyze>>

\* Faulty variant of ResultResponse: the status is looked at first, with
\* job_status.get(job_id, {}), so an unknown id is "not completed".
ResultResponseStatusFirst(job_id) ==
    IF Get(Get(job_status, job_id, << >>), "status", "none") # "completed"
    THEN [op |-> "result", code |-> 400, job_id |-> job_id]
    ELSE [op |-> "result", code |-> 200, job_id |-> job_id,
          body |-> Get(job_status[job_id], "result", << >>)]

\* GET /result/{job_id}
ResultResponse(job_id) ==
    IF job_id \notin DOMAIN job_status
    THEN [op |-> "result", code |-> 404, job_id |-> job_id]
    ELSE IF job_status[job_id].status # "completed"
    THEN [op |-> "result", code |-> 400, job_id |-> job_id]
    ELSE [op |-> "result", code |-> 200, job_id |-> job_id,
          body |-> Get(job_status[job_id], "result", << >>)]

get_job_result(job_id) ==
    /\ variant = "real"
    /\ Idle
    /\ resp' = ResultResponse(job_id)
    /\ job_status' = StoreAfterRead(job_id)
    /\ UNCHANGED <<variant, cuda_available, conversion_jobs, jobs, models, task, loop, files,
                   analyze>>

FileTypes == {"model_glb", "model_obj", "image", "texture", "mesh_stats"}

\* f"{file_type}_path"
PathKey(file_type) ==
    CASE file_type = "model_glb" -> "model_glb_path"
      [] file_type = "model_obj" -> "model_obj_path"
      [] file_type = "image" -> "image_path"
      [] file_type = "texture" -> "texture_path"
      [] OTHER -> "mesh_stats_path"

\* Faulty variant of DownloadResponse: the status check is missing.
DownloadResponseNoStatusCheck(job_id, file_type) ==
    IF job_id \notin DOMAIN job_status
    THEN [op |-> "download", code |-> 404, job_id |-> job_id]
    ELSE LET result == Get(job_status[job_id], "result", << >>)
             key == PathKey(file_type)
         IN  IF key \notin DOMAIN result \/ result[key] \notin files
             THEN [op |-> "download", code |-> 404, job_id |-> job_id,
                   file_type |-> file_type]
             ELSE [op |-> "download", code |-> 200, job_id |-> job_id,
                   file_type |-> file_type, file |-> result[key]]

\* GET /download/{job_id}/{file_type}
DownloadResponse(job_id, file_type) ==
    IF job_id \notin DOMAIN job_status
    THEN [op |-> "download", code |-> 404, job_id |-> job_id]
    ELSE IF job_status[job_id].status # "completed"
    THEN [op |-> "download", code |-> 400, job_id |-> job_id]
    ELSE LET result == Get(job_status[job_id], "result", << >>)
             key == PathKey(file_type)
         IN  IF key \notin DOMAIN result \/ result[key] \notin files
             THEN [op |-> "download", code |-> 404, job_id |-> job_id,
                   file_type |-> file_type]
             ELSE [op |-> "download", code |-> 200, job_id |-> job_id,
                   file_type |-> file_type, file |-> result[key]]

download_result(job_id, file_type) ==
    /\ variant = "real"
    /\ Idle
    /\ resp' = DownloadResponse(job_id, file_type)
    /\ job_status' = StoreAfterRead(job_id)
    /\ UNCHANGED <<variant, cuda_available, conversion_jobs, jobs, models, task, loop, files,
                   analyze>>

----------------------------------------------------------------------------
\* Real server: analyze_image_advanced

\* Number of contours of one area band an image may have.
MaxContours == 13

\* The steps of the analysis that can raise.
AnalysisFaults == {"none", "background", "grayscale", "edges", "contours"}

\* The external contours of an image come in four groups; the contours of
\* a group have the same cv2.contourArea.
Groups == {"tiny", "small", "medium", "large"}

\* The areas of the groups: inside the bands, at the upper ends of the
\* bands and just above their lower ends.
ContourAreas ==
    { [tiny |-> 5, small |-> 30, medium |-> 75, large |-> 150],
      [tiny |-> 10, small |-> 50, medium |-> 100, large |-> 101],
      [tiny |-> 0, small |-> 11, medium |-> 51, large |-> 1000] }

\* The numbers of contours of the tiny group: none, a few, and so many that
\* the complexity score comes near 40, 70 and 100.
NoiseContours ==
    {0, MaxContours} \cup {t - 3 * MaxContours : t \in {400, 700, 1000}}

\* An image, as the analysis sees it: the number of contours of each group,
\* their areas, and the step that raises on it.
Images ==
    [large : 0..MaxContours, medium : 0..MaxContours,
     small : 0..MaxContours, tiny : NoiseContours, areas : ContourAreas,
     fault : AnalysisFaults]

\* The images sent to POST /analyze: a blank one, and one with contours on
\* which edge detection raises.
RequestImages ==
    { [large |-> 0, medium |-> 0, small |-> 0, tiny |-> 0,
       areas |-> [tiny |-> 5, small |-> 30, medium |-> 75, large |-> 150],
       fault |-> "none"],
      [large |-> MaxContours, medium |-> 1, small |-> 0, tiny |-> 0,
       areas |-> [tiny |-> 5, small |-> 30, medium |-> 75, large |-> 150],
       fault |-> "edges"] }

Max(a, b) ==
    IF a > b THEN a ELSE b

\* Whether the try block raises: the background remover is called only
\* when it is loaded.
AnalysisRaises(image, remover) ==
    /\ image.fault # "none"
    /\ image.fault = "background" => remover

\* Faulty variant of FallbackAnalysis: the except clause re-raises.
FallbackAnalysisReraised ==
    [raised |-> TRUE]

\* The dict of the except clause.
FallbackAnalysis ==
    [error |-> "str(e)", estimated_walls |-> 8, estimated_doors |-> 3,
     estimated_windows |-> 6, estimated_rooms |-> 4, complexity_score |-> 500]

\* len(contours)
total_contours(image) ==
    image.large + image.medium + image.small + image.tiny

\* The conditions of the three list comprehensions.
IsLarge(area) ==
    area > 100

\* Faulty variant of IsMedium: the lower end belongs to the band.
IsMediumClosed(area) ==
    50 <= area /\ area <= 100

IsMedium(area) ==
    50 < area /\ area <= 100

IsSmall(area) ==
    10 < area /\ area <= 50

\* The number of contours of group g when `selected` holds of its area.
Selected(image, g, selected) ==
    IF selected THEN image[g] ELSE 0

\* len(large_contours), len(medium_contours), len(small_contours)
large_contours(image) ==
    Selected(image, "tiny", IsLarge(image.areas.tiny))
    + Selected(image, "small", IsLarge(image.areas.small))
    + Selected(image, "medium", IsLarge(image.areas.medium))
    + Selected(image, "large", IsLarge(image.areas.large))

medium_contours(image) ==
    Selected(image, "tiny", IsMedium(image.areas.tiny))
    + Selected(image, "small", IsMedium(image.areas.small))
    + Selected(image, "medium", IsMedium(image.areas.medium))
    + Selected(image, "large", IsMedium(image.areas.large))

small_contours(image) ==
    Selected(image, "tiny", IsSmall(image.areas.tiny))
    + Selected(image, "small", IsSmall(image.areas.small))
    + Selected(image, "medium", IsSmall(image.areas.medium))
    + Selected(image, "large", IsSmall(image.areas.large))

\* Faulty variant of ComplexityScore: the cap is missing.
ComplexityScoreUncapped(image) ==
    total_contours(image) + large_contours(image) * 2

\* complexity_score is a float, (total + 2 * large) / 10 capped at 100; the
\* model keeps it in tenths, so that 500 stands for 50.0.
ComplexityScore(image) ==
    Min(1000, total_contours(image) + large_contours(image) * 2)

\* The recommendation derived from the score (in tenths).
detail_level(complexity_score) ==
    IF complexity_score > 700 THEN "high"
    ELSE IF complexity_score > 400 THEN "medium" ELSE "low"

recommended_resolution(complexity_score) ==
    IF complexity_score > 700 THEN 256 ELSE 128

recommended_steps(complexity_score) ==
    IF complexity_score > 700 THEN 10 ELSE 5

\* The estimates, from the numbers of large, medium and small contours.
estimated_walls(n_large) ==
    Max(4, n_large \div 2)

\* Faulty variant of estimated_doors: the floor is missing.
estimated_doors_unfloored(n_medium) ==
    n_medium \div 3

estimated_doors(n_medium) ==
    Max(1, n_medium \div 3)

estimated_windows(n_small) ==
    Max(2, n_small \div 2)

estimated_rooms(walls) ==
    Max(1, walls \div 3)

\* analyze_image_advanced(image), `remover` being the global
\* background_remover when it is called.
analyze_image_advanced(image, remover) ==
    IF AnalysisRaises(image, remover)
    THEN FallbackAnalysis
    ELSE LET complexity_score == ComplexityScore(image)
         IN  [detected_features |->
                [total_contours |-> total_contours(image),
                 large_contours |-> large_contours(image),
                 medium_contours |-> medium_contours(image),
                 small_contours |-> small_contours(image),
                 estimated_walls |-> estimated_walls(large_contours(image)),
                 estimated_doors |-> estimated_doors(medium_contours(image)),
                 estimated_windows |->
                    estimated_windows(small_contours(image)),
                 estimated_rooms |->
                    estimated_rooms(
                        estimated_walls(large_contours(image)))],
              complexity_analysis |->
                [complexity_score |-> complexity_score,
                 detail_level |-> detail_level(complexity_score),
                 recommended_resolution |->
                    recommended_resolution(complexity_score),
                 recommended_steps |-> recommended_steps(complexity_score)],
              preprocessing |->
                [background_removed |-> remover, image_enhanced |-> TRUE]]

----------------------------------------------------------------------------
\* Real server: POST /analyze.  Its try block turns the HTTPException(400)
\* of the validation, like every other exception, into HTTPException(500).

\* Up to `await file.read()`, which suspends the handler.
analyze_blueprint(content_type) ==
    /\ variant = "real"
    /\ Idle
    /\ analyze.pc = "idle"
    /\ IF StartsWithImage(content_type)
       THEN analyze' = [pc |-> "reading"] /\ resp' = resp
       ELSE /\ analyze' = [pc |-> "idle"]
            /\ resp' = [op |-> "analyze", code |-> 500,
                        content_type |-> content_type]
    /\ UNCHANGED <<variant, cuda_available, conversion_jobs, job_status, jobs, models, task,
                   loop, files>>

\* The rest: decode, ensure_models_loaded, analyze_image_advanced (which
\* catches its own exceptions), the response.
analyze_blueprint_resume ==
    /\ variant = "real"
    /\ Idle
    /\ analyze.pc = "reading"
    /\ analyze' = [pc |-> "idle"]
    /\ \E decoded \in BOOLEAN :
          IF decoded
          THEN \E fault \in EnsureFaults, image \in RequestImages :
                  /\ ensure_models_loaded(fault)
                  /\ resp' = IF fault = "none"
                             THEN [op |-> "analyze", code |-> 200,
                                   content_type |-> "image/png",
                                   image |-> image,
                                   analysis |-> analyze_image_advanced(
                                       image, background_remover')]
                             ELSE [op |-> "analyze", code |-> 500,
                                   content_type |-> "image/png"]
          ELSE /\ resp' = [op |-> "analyze", code |-> 500,
                           content_type |-> "image/png"]
               /\ UNCHANGED models
    /\ UNCHANGED <<variant, cuda_available, conversion_jobs, job_status, jobs, task, loop,
                   files>>

----------------------------------------------------------------------------
\* Test server (test_server.py): the store is `jobs`, the background task is
\* started with asyncio.create_task and sleeps before every stage write.

\* POST /generate3d: no content-type check; int() and float() of the form
\* fields raise ValueError before the dict is stored, and the except clause
\* answers 500.  The response carries no status.
test_generate_3d_model(include_textures, max_face_count, parses) ==
    /\ variant = "test"
    /\ Idle
    /\ IF parses
       THEN \E job_id \in FreshIds(jobs) :
               /\ jobs' = Assign(jobs, job_id,
                     QueuedJob @@
                        [parameters |->
                            [include_textures |-> include_textures,
                             max_face_count |-> max_face_count]])
               /\ task' = [task EXCEPT ![job_id] = [pc |-> "scheduled", i |-> 0]]
               /\ resp' = [op |-> "generate3d", code |-> 200,
                           job_id |-> job_id]
       ELSE /\ resp' = [op |-> "generate3d", code |-> 500]
            /\ UNCHANGED <<jobs, task>>
    /\ UNCHANGED <<variant, cuda_available, conversion_jobs, job_status, models, loop, files,
                   analyze>>

\* The (progress, message) pairs of process_3d_generation.
stages ==
    << [progress |-> 10, message |-> "Preprocessing image..."],
       [progress |-> 25, message |-> "Generating 3D geometry..."],
       [progress |-> 50, message |-> "Optimizing mesh structure..."],
       [progress |-> 75, message |-> "Applying textures..."],
       [progress |-> 90, message |-> "Post-processing..."],
       [progress |-> 100, message |-> "Generation complete!"] >>

TestSetJob(j, u) ==
    jobs' = [jobs EXCEPT ![j] = Update(@, u)]

\* The task starts, reads its job and suspends in the first sleep.
test_start(j) ==
    /\ variant = "test"
    /\ Idle
    /\ task[j].pc = "scheduled"
    /\ task' = [task EXCEPT ![j] = [pc |-> "sleep", i |-> 1]]
    /\ UNCHANGED <<resp, variant, cuda_available, conversion_jobs, job_status, jobs, models, loop,
                   files, analyze>>

StageUpdate(i) ==
    [status |-> "processing", progress |-> stages[i].progress,
     message |-> stages[i].message]

\* Faulty variant of LoopAfterStage: the task suspends after the last
\* stage write too.
LoopAfterStageYielding(j, i) ==
    0

\* Who holds the event loop after stage i is written: nobody while the next
\* turn sleeps, the task itself after the last turn.
LoopAfterStage(j, i) ==
    IF i < Len(stages) THEN 0 ELSE j

\* One turn of the loop: the sleep ends and the stage is written; the next
\* turn sleeps again, and after the last turn the task runs on, without an
\* await, to the end.
test_stage(j) ==
    /\ variant = "test"
    /\ Idle
    /\ task[j].pc = "sleep"
    /\ TestSetJob(j, StageUpdate(task[j].i))
    /\ task' = IF task[j].i < Len(stages)
               THEN [task EXCEPT ![j].i = @ + 1]
               ELSE [task EXCEPT ![j].pc = "write_model"]
    /\ loop' = LoopAfterStage(j, task[j].i)
    /\ UNCHANGED <<resp, variant, cuda_available, conversion_jobs, job_status, models, files, analyze>>

TestRunning(j, at) ==
    /\ variant = "test"
    /\ j \in DOMAIN jobs
    /\ loop = j
    /\ task[j].pc = at

\* open(..., "wb") and write: the file exists when both succeed, and may or
\* may not exist when one of them raises.
test_write(j, at, name, next) ==
    /\ TestRunning(j, at)
    /\ \E ok \in BOOLEAN, created \in BOOLEAN :
          /\ ok => created
          /\ files' = IF created THEN files \cup {Path(j, name)} ELSE files
          /\ task' = [task EXCEPT ![j].pc = IF ok THEN next ELSE "except"]
    /\ UNCHANGED <<resp, variant, cuda_available, conversion_jobs, job_status, jobs, models, loop,
                   analyze>>

test_write_model(j) ==
    test_write(j, "write_model", "model.glb", "write_texture")

test_write_texture(j) ==
    test_write(j, "write_texture", "texture.png", "complete")

\* The face count of the mock result.
MockFaces == 9000

TestCompletedUpdate(job, j) ==
    [status |-> "completed", progress |-> 100,
     message |-> "3D model generated successfully",
     result |-> [model_url |-> Path(j, "model.glb"),
                 texture_url |-> Path(j, "texture.png"),
                 metadata |->
                    [faces |-> MockFaces,
                     model_stats |->
                        [faces |-> MockFaces,
                         hasTexture |-> job.parameters.include_textures]]],
     completed_at |-> "now"]

\* `job` was bound to jobs[job_id] at the start of the task; the dict is
\* only ever updated in place, so it is the stored one.
test_complete(j) ==
    /\ TestRunning(j, "complete")
    /\ TestSetJob(j, TestCompletedUpdate(jobs[j], j))
    /\ task' = [task EXCEPT ![j] = Returned]
    /\ loop' = 0
    /\ UNCHANGED <<resp, variant, cuda_available, conversion_jobs, job_status, models, files, analyze>>

TestFailedUpdate ==
    [status |-> "failed", progress |-> 0, message |-> "Generation failed",
     error |-> "str(e)"]

test_except(j) ==
    /\ TestRunning(j, "except")
    /\ TestSetJob(j, TestFailedUpdate)
    /\ task' = [task EXCEPT ![j] = Returned]
    /\ loop' = 0
    /\ UNCHANGED <<resp, variant, cuda_available, conversion_jobs, job_status, models, files, analyze>>

process_3d_generation(j) ==
    \/ test_start(j)
    \/ test_stage(j)
    \/ test_write_model(j)
    \/ test_write_texture(j)
    \/ test_complete(j)
    \/ test_except(j)

\* GET /status/{job_id}
test_get_job_status(job_id) ==
    /\ variant = "test"
    /\ Idle
    /\ resp' = IF job_id \notin DOMAIN jobs
               THEN [op |-> "status", code |-> 404, job_id |-> job_id]
               ELSE [op |-> "status", code |-> 200, job_id |-> job_id,
                     body |-> jobs[job_id]]
    /\ UNCHANGED <<variant, cuda_available, conversion_jobs, job_status, jobs, models, task,
                   loop, files, analyze>>

\* GET /download/{filename}
download_file(filename) ==
    /\ variant = "test"
    /\ Idle
    /\ resp' = [op |-> "download",
                code |-> IF filename \in files THEN 200 ELSE 404,
                file |-> filename]
    /\ UNCHANGED <<variant, cuda_available, conversion_jobs, job_status, jobs, models, task,
                   loop, files, analyze>>

----------------------------------------------------------------------------
\* python-services server (src/python-services/hunyuan3d-server.py):
\* analyze_blueprint

\* Number of external contours an image may have.
MaxServiceContours == 400

\* An image, as analyze_blueprint sees it: the number of its contours, and
\* whether an OpenCV call raises on it.
ServiceImages ==
    [contours : 0..MaxServiceContours, fault : {"none", "cvtColor"}]

\* analyze_blueprint(image) has no try block: what OpenCV raises is raised
\* to the caller.
services_analyze_blueprint(image) ==
    IF image.fault # "none"
    THEN [raised |-> TRUE]
    ELSE LET num_contours == image.contours
         IN  [raised |-> FALSE,
              complexity |-> IF num_contours < 100 THEN "medium" ELSE "high",
              estimated_conversion_time |->
                  Min(60, Max(10, num_contours \div 5)),
              element_counts |->
                  [walls |-> Max(4, Min(20, num_contours \div 10)),
                   doors |-> Max(1, Min(8, num_contours \div 30)),
                   windows |-> Max(2, Min(15, num_contours \div 25)),
                   rooms |-> Max(1, Min(8, num_contours \div 40))]]

----------------------------------------------------------------------------
\* python-services server: the conversion jobs.  initialize_hunyuan3d sets
\* hunyuan_model to "demo_mode" on every path, so /generate3d always
\* schedules process_conversion_demo, and process_conversion_real, which
\* hands over to it in demo mode, is never run past its first statement.

\* The dict a submission stores.  progress is a float in the source; the
\* model keeps it in tenths, so that 10 stands for 1.0.
PendingJob ==
    [status |-> "pending", progress |-> 0, message |-> "Job created",
     created_at |-> "now", completed_at |-> "None"]

\* The decoded images of the submissions: a blank one, and one on which
\* OpenCV raises in analyze_blueprint.
ServiceRequestImages ==
    { [contours |-> 0, fault |-> "none"],
      [contours |-> MaxServiceContours, fault |-> "cvtColor"] }

\* POST /generate3d, up to `await image.read()`: the record is stored
\* before the image is read.  The HTTPException(400) of the validation is
\* raised inside the try block, whose except clause answers 500.
services_generate_3d_model(content_type, include_textures) ==
    /\ variant = "services"
    /\ Idle
    /\ IF StartsWithImage(content_type)
       THEN \E job_id \in FreshIds(conversion_jobs) :
               /\ conversion_jobs' =
                     Assign(conversion_jobs, job_id, PendingJob)
               /\ task' = [task EXCEPT
                     ![job_id] = [pc |-> "reading",
                                  include_textures |-> include_textures]]
               /\ resp' = resp
       ELSE /\ resp' = [op |-> "generate3d", code |-> 500,
                        content_type |-> content_type]
            /\ UNCHANGED <<conversion_jobs, task>>
    /\ UNCHANGED <<variant, cuda_available, job_status, jobs, models, loop,
                   files, analyze>>

\* The rest of the handler: Image.open(io.BytesIO(image_data)) raises on
\* bytes that are no image, and NameError where `io` is not a global of the
\* module (it is imported under `if __name__ == "__main__"` only); the
\* except clause answers 500 and the record stays.  Otherwise the task is
\* added and the answer is {"job_id", "status": "started"}.
services_generate_3d_model_resume(j) ==
    /\ variant = "services"
    /\ Idle
    /\ task[j].pc = "reading"
    /\ \E decoded \in BOOLEAN :
          IF decoded
          THEN \E image \in ServiceRequestImages :
                  /\ task' = [task EXCEPT
                        ![j] = [pc |-> "scheduled", i |-> 0,
                                include_textures |-> task[j].include_textures,
                                image |-> image]]
                  /\ resp' = [op |-> "generate3d", code |-> 200,
                              job_id |-> j, status |-> "started"]
          ELSE /\ task' = [task EXCEPT ![j] = [pc |-> "rejected"]]
               /\ resp' = [op |-> "generate3d", code |-> 500,
                           content_type |-> "image/png"]
    /\ UNCHANGED <<variant, cuda_available, conversion_jobs, job_status, jobs,
                   models, loop, files, analyze>>

\* The (progress, message) pairs of process_conversion_demo, in tenths.
demo_stages ==
    << [progress |-> 1, message |-> "Analyzing blueprint image..."],
       [progress |-> 3, message |-> "Detecting architectural elements..."],
       [progress |-> 5, message |-> "Simulating Hunyuan3D-2 processing..."],
       [progress |-> 7, message |-> "Generating 3D geometry..."],
       [progress |-> 9, message |-> "Applying materials and textures..."],
       [progress |-> 10, message |-> "Demo conversion completed"] >>

\* One turn of the loop: progress and message are assigned, then the task
\* sleeps.  The status is not assigned.
demo_stage(j) ==
    /\ variant = "services"
    /\ Idle
    /\ task[j].pc \in {"scheduled", "sleep"}
    /\ task[j].i < Len(demo_stages)
    /\ conversion_jobs' =
          [conversion_jobs EXCEPT
              ![j] = Update(@, demo_stages[task[j].i + 1])]
    /\ task' = [task EXCEPT ![j].pc = "sleep", ![j].i = @ + 1]
    /\ UNCHANGED <<resp, variant, cuda_available, job_status, jobs, models,
                   loop, files, analyze>>

\* The value process_conversion_demo returns (the random numbers left
\* out); BackgroundTasks drops it.
DemoResult(j, frame, analysis) ==
    [model_url |-> Path(j, "obj"),
     texture_url |-> IF frame.include_textures
                     THEN Path(j, "texture.jpg") ELSE "None",
     detected_elements |-> analysis.element_counts]

\* After the last sleep: analyze_blueprint, outside any try block, then
\* the completion.  What analyze_blueprint raises leaves the task, and the
\* record as the last turn wrote it.
demo_finish(j) ==
    /\ variant = "services"
    /\ Idle
    /\ task[j].pc = "sleep"
    /\ task[j].i = Len(demo_stages)
    /\ LET analysis == services_analyze_blueprint(task[j].image)
       IN  IF analysis.raised
           THEN /\ task' = [task EXCEPT ![j] = [pc |-> "raised"]]
                /\ UNCHANGED conversion_jobs
           ELSE /\ conversion_jobs' =
                      [conversion_jobs EXCEPT
                          ![j] = Update(@, [status |-> "completed",
                                            completed_at |-> "now"])]
                /\ task' = [task EXCEPT
                      ![j] = [pc |-> "returned",
                              value |-> DemoResult(j, task[j], analysis)]]
    /\ UNCHANGED <<resp, variant, cuda_available, job_status, jobs, models,
                   loop, files, analyze>>

process_conversion_demo(j) ==
    \/ demo_stage(j)
    \/ demo_finish(j)

\* GET /status/{job_id}
get_conversion_status(job_id) ==
    /\ variant = "services"
    /\ Idle
    /\ resp' = IF job_id \notin DOMAIN conversion_jobs
               THEN [op |-> "status", code |-> 404, job_id |-> job_id]
               ELSE [op |-> "status", code |-> 200, job_id |-> job_id,
                     body |-> Restrict(conversion_jobs[job_id],
                                  {"status", "progress", "message",
                                   "created_at", "completed_at"})]
    /\ UNCHANGED <<variant, cuda_available, conversion_jobs, job_status, jobs,
                   models, task, loop, files, analyze>>

\* The dict /result answers with when the record has no "result".
DefaultResult(job_id) ==
    [model_url |-> Path(job_id, "obj"),
     texture_url |-> Path(job_id, "texture.jpg"), accuracy |-> 85]

\* GET /result/{job_id}
get_conversion_result(job_id) ==
    /\ variant = "services"
    /\ Idle
    /\ resp' = IF job_id \notin DOMAIN conversion_jobs
               THEN [op |-> "result", code |-> 404, job_id |-> job_id]
               ELSE IF conversion_jobs[job_id].status # "completed"
               THEN [op |-> "result", code |-> 400, job_id |-> job_id]
               ELSE [op |-> "result", code |-> 200, job_id |-> job_id,
                     body |-> Get(conversion_jobs[job_id], "result",
                                  DefaultResult(job_id))]
    /\ UNCHANGED <<variant, cuda_available, conversion_jobs, job_status, jobs,
                   models, task, loop, files, analyze>>

----------------------------------------------------------------------------
\* The servers

JobStep(j) ==
    \/ process_real_3d_generation(j)
    \/ process_3d_generation(j)
    \/ process_conversion_demo(j)

Request ==
    \/ \E ct \in ContentTypes, it \in BOOLEAN, mfc \in MaxFaceCounts :
          generate_3d_model(ct, it, mfc)
    \/ \E id \in AskIds : get_job_status(id)
    \/ \E id \in AskIds : get_job_result(id)
    \/ \E id \in AskIds, ft \in FileTypes : download_result(id, ft)
    \/ \E mp \in ModelPaths, et \in BOOLEAN : load_models(mp, et)
    \/ \E ct \in ContentTypes : analyze_blueprint(ct)
    \/ analyze_blueprint_resume
    \/ \E it \in BOOLEAN, mfc \in MaxFaceCounts, parses \in BOOLEAN :
          test_generate_3d_model(it, mfc, parses)
    \/ \E id \in AskIds : test_get_job_status(id)
    \/ \E id \in JobIds, n \in {"model.glb", "texture.png"} :
          download_file(Path(id, n))
    \/ \E ct \in ContentTypes, it \in BOOLEAN :
          services_generate_3d_model(ct, it)
    \/ \E j \in JobIds : services_generate_3d_model_resume(j)
    \/ \E id \in AskIds : get_conversion_status(id)
    \/ \E id \in AskIds : get_conversion_result(id)

Next ==
    \/ \E j \in JobIds : JobStep(j)
    \/ Request
    \/ send_response

Spec == Init /\ [][Next]_vars

\* The event loop runs every task that is ready: a background task whose
\* next step is possible is eventually run.
FairSpec ==
    /\ Spec
    /\ WF_vars(send_response)
    /\ \A j \in JobIds : SF_vars(JobStep(j))

----------------------------------------------------------------------------
\* The analysis functions on their own: every image, one call.

AnalysisInit ==
    /\ variant \in {"real", "services"}
    /\ analyze \in [pc : {"call"},
                    image : IF variant = "real" THEN Images
                            ELSE ServiceImages]
    /\ background_remover \in BOOLEAN
    /\ (variant = "services" => background_remover = FALSE)
    /\ cuda_available = FALSE
    /\ job_status = << >>
    /\ jobs = << >>
    /\ conversion_jobs = << >>
    /\ shape_pipeline = background_remover
    /\ texture_pipeline = FALSE
    /\ model_loaded = background_remover
    /\ task = [j \in JobIds |-> NoTask]
    /\ loop = 0
    /\ files = {}
    /\ init_count = [c \in {"background_remover", "shape_pipeline",
                            "texture_pipeline"} |->
                        IF c # "texture_pipeline" /\ background_remover
                        THEN 1 ELSE 0]
    /\ init_raised = FALSE
    /\ resp = NoResp

call_analyze_image_advanced ==
    /\ variant = "real"
    /\ analyze.pc = "call"
    /\ analyze' = [analyze EXCEPT !.pc = "returned"]
    /\ resp' = [op |-> "analyze_image_advanced",
                value |-> analyze_image_advanced(analyze.image,
                                                 background_remover)]
    /\ UNCHANGED <<variant, cuda_available, conversion_jobs, job_status, jobs, models, task,
                   loop, files>>

call_services_analyze_blueprint ==
    /\ variant = "services"
    /\ analyze.pc = "call"
    /\ analyze' = [analyze EXCEPT !.pc = "returned"]
    /\ resp' = [op |-> "analyze_blueprint",
                value |-> services_analyze_blueprint(analyze.image)]
    /\ UNCHANGED <<variant, cuda_available, conversion_jobs, job_status, jobs, models, task,
                   loop, files>>

AnalysisNext ==
    \/ call_analyze_image_advanced
    \/ call_services_analyze_blueprint

AnalysisSpec == AnalysisInit /\ [][AnalysisNext]_vars

----------------------------------------------------------------------------
\* The job store of the running variant, and views of a job's dict

Store ==
    IF variant = "real" THEN job_status ELSE jobs

Terminal(job) ==
    job.status \in {"completed", "failed"}

----------------------------------------------------------------------------
\* C1: in every state of the real server every job holds a result exactly
\* when it is completed and an error exactly when it is failed (so never
\* both, and one of them when it is terminal).
C1_ResultErrorExclusive ==
    \A j \in DOMAIN job_status :
        /\ ("result" \in DOMAIN job_status[j])
              <=> (job_status[j].status = "completed")
        /\ ("error" \in DOMAIN job_status[j])
              <=> (job_status[j].status = "failed")

\* C2: once a job of the real server is completed or failed, no later step
\* changes its status, progress, result or error.
C2_TerminalIsFinal ==
    [][\A j \in DOMAIN job_status :
          Terminal(job_status[j]) =>
              Restrict(job_status'[j],
                       {"status", "progress", "result", "error"})
              = Restrict(job_status[j],
                         {"status", "progress", "result", "error"})]_vars

\* C3: in both servers every write that leaves a job processing does not
\* lower its progress, and a completed job has progress 100.
C3_ProgressMonotone ==
    [][\A j \in DOMAIN Store :
          /\ Store'[j].status = "processing"
                => Store'[j].progress >= Store[j].progress
          /\ Store'[j].status = "completed" => Store'[j].progress = 100]_vars

\* Two jobs in flight, interleaved: one is completed at 100 while another
\* is processing after several writes.
C3_Witness ==
    \E j, k \in DOMAIN Store :
        /\ Store[j].status = "completed" /\ Store[j].progress = 100
        /\ Store[k].status = "processing" /\ Store[k].progress >= 5
        /\ task[k].pc \in {"read", "sleep"}

\* The stages of process_real_3d_generation.
StageNames ==
    {"decode", "ensure", "background", "mesh", "cleanup", "texture", "save",
     "stats"}

\* C4: when a stage of a real job has raised, the only step the task still
\* takes is the except clause: no later stage runs, the task returns (it
\* does not raise), and the job is failed with error and failed_at and
\* without a result.
C4_StageFailureFails ==
    [][\A j \in JobIds :
          (/\ variant = "real"
           /\ task[j].pc = "except"
           /\ task[j].exc \in StageNames
           /\ task'[j] # task[j])
          => /\ task'[j] = Returned
             /\ loop' = 0
             /\ files' = files
             /\ job_status'[j].status = "failed"
             /\ {"error", "failed_at"} \subseteq DOMAIN job_status'[j]
             /\ "result" \notin DOMAIN job_status'[j]]_vars

\* A job failed by its save stage: the glb was written, the job is failed
\* without a result and its task has returned.
C4_Witness ==
    \E j \in DOMAIN job_status :
        /\ job_status[j].status = "failed"
        /\ {"error", "failed_at"} \subseteq DOMAIN job_status[j]
        /\ "result" \notin DOMAIN job_status[j]
        /\ Path(j, "glb") \in files
        /\ Path(j, "processed.png") \notin files
        /\ task[j] = Returned

\* C5: with any number of callers of the load operation in flight (jobs at
\* stage 2, /load_models, /analyze), each pipeline is initialised at most
\* once; a caller that returned from the load left model_loaded true, and a
\* caller fails only when an initialiser has raised.
C5_LoadAtMostOnce ==
    /\ \A c \in DOMAIN init_count : init_count[c] <= 1
    /\ \A j \in JobIds :
          LET ensured == Get(task[j], "ensured", "no")
          IN  /\ ensured \in {"already", "loaded"} => model_loaded
              /\ ensured = "raised" => init_raised
    /\ (resp.op \in {"load_models", "analyze"} /\ resp.code = 200)
          => model_loaded
    /\ (resp.op = "load_models" /\ resp.code = 500) => init_raised

\* Two jobs were suspended in their read while no model was loaded; the
\* first to resume has loaded all three pipelines, the other is still to
\* reach its stage 2, and no initialiser has raised.
C5_Witness ==
    \E j, k \in JobIds :
        /\ j # k
        /\ task[j].pc = "w15"
        /\ task[j].ensured = "loaded"
        /\ task[k].pc = "read"
        /\ model_loaded
        /\ ~init_raised
        /\ \A c \in DOMAIN init_count : init_count[c] = 1

\* C6: a /generate3d request of the real server whose content type is not an
\* image is answered 400, returns no job id, schedules no task and leaves
\* job_status unchanged.
C6_NonImageRejected400 ==
    [][(/\ variant = "real"
        /\ resp = NoResp
        /\ resp'.op = "generate3d"
        /\ ~StartsWithImage(resp'.content_type))
       => /\ resp'.code = 400
          /\ "job_id" \notin DOMAIN resp'
          /\ task' = task
          /\ job_status' = job_status]_vars

\* C7: in the real server a status, result or download request for an id
\* that job_status does not hold is answered 404 and leaves job_status
\* unchanged.
C7_UnknownIdNotFound ==
    [][(/\ variant = "real"
        /\ resp = NoResp
        /\ resp'.op \in {"status", "result", "download"}
        /\ resp'.job_id \notin DOMAIN job_status)
       => /\ resp'.code = 404
          /\ job_status' = job_status]_vars

\* An unknown id is answered 404 while the store holds a completed job.
C7_Witness ==
    /\ variant = "real"
    /\ resp.op \in {"status", "result", "download"}
    /\ resp.job_id \notin DOMAIN job_status
    /\ resp.code = 404
    /\ \E j \in DOMAIN job_status : job_status[j].status = "completed"

\* C8: in the real server a result or download request for a stored job
\* that is not completed is answered 400, not the 404 of an unknown id, and
\* carries no result and no file.
C8_NotReady ==
    [][(/\ variant = "real"
        /\ resp = NoResp
        /\ resp'.op \in {"result", "download"}
        /\ resp'.job_id \in DOMAIN job_status
        /\ job_status[resp'.job_id].status # "completed")
       => /\ resp'.code = 400
          /\ resp'.code # 404
          /\ DOMAIN resp' \cap {"body", "file"} = {}
          /\ job_status' = job_status]_vars

\* A download of a failed job, which wrote its files, is answered 400.
C8_Witness ==
    /\ variant = "real"
    /\ resp.op = "download"
    /\ resp.code = 400
    /\ resp.job_id \in DOMAIN job_status
    /\ job_status[resp.job_id].status = "failed"
    /\ Path(resp.job_id, "glb") \in files

\* C9: a successful /generate3d of the real server adds exactly one record,
\* queued with progress 0, under a new id, changes no other record, answers
\* with that id and status queued, and no step of the job's task has run
\* when the response is produced.
C9_SubmitQueues ==
    [][(/\ variant = "real"
        /\ resp = NoResp
        /\ resp'.op = "generate3d"
        /\ resp'.code = 200)
       => /\ resp'.job_id \notin DOMAIN job_status
          /\ DOMAIN job_status' = DOMAIN job_status \cup {resp'.job_id}
          /\ \A k \in DOMAIN job_status : job_status'[k] = job_status[k]
          /\ job_status'[resp'.job_id].status = "queued"
          /\ job_status'[resp'.job_id].progress = 0
          /\ resp'.status = "queued"
          /\ task'[resp'.job_id].pc = "scheduled"
          /\ \A k \in JobIds \ {resp'.job_id} : task'[k] = task[k]]_vars

\* The response to a submission made while an earlier job is processing.
C9_Witness ==
    /\ variant = "real"
    /\ resp.op = "generate3d"
    /\ resp.code = 200
    /\ job_status[resp.job_id].status = "queued"
    /\ task[resp.job_id].pc = "scheduled"
    /\ \E k \in DOMAIN job_status : job_status[k].status = "processing"

\* C10: under fair scheduling of the background tasks every job a server
\* has stored is eventually completed or failed.
C10_JobsTerminate ==
    \A j \in JobIds :
        (j \in DOMAIN Store) ~> (j \in DOMAIN Store /\ Terminal(Store[j]))

\* Every issued job has ended, one completed and one failed.
C10_Witness ==
    /\ DOMAIN Store = JobIds
    /\ \A j \in JobIds : task[j] = Returned /\ Terminal(Store[j])
    /\ \E j \in JobIds : Store[j].status = "completed"
    /\ \E j \in JobIds : Store[j].status = "failed"

\* The positions of a real job's task between two consecutive progress
\* writes: the stage that follows the write has not finished.
BetweenWrites ==
    {"ensure", "background", "mesh", "cleanup", "texture", "save", "stats",
     "final"}

\* C11: whenever the task of a real job is between two consecutive progress
\* writes, a status request for that job can be served (it does not wait
\* for the stage to finish), so every checkpoint can be observed before the
\* next one is written.
C11_StatusServedBetweenWrites ==
    \A j \in DOMAIN job_status :
        (variant = "real" /\ task[j].pc \in BetweenWrites)
            => ENABLED get_job_status(j)

\* C12: in the real server a download from a completed job is answered with
\* the file exactly when the kind asked for has a path in the job's result
\* (the map save_real_generated_model returned), and with 404 otherwise.
C12_DownloadResolvesMap ==
    [][(/\ variant = "real"
        /\ resp = NoResp
        /\ resp'.op = "download"
        /\ resp'.job_id \in DOMAIN job_status
        /\ job_status[resp'.job_id].status = "completed")
       => LET result == job_status[resp'.job_id].result
          IN  /\ PathKey(resp'.file_type) \in DOMAIN result
                    => resp'.code = 200
              /\ PathKey(resp'.file_type) \notin DOMAIN result
                    => resp'.code = 404]_vars

\* The include_textures a completed job was submitted with, as its record
\* keeps it: result.generation_params in the real server, parameters in the
\* test server.
IncludeTextures(job) ==
    IF variant = "real"
    THEN job.result.generation_params.include_textures
    ELSE job.parameters.include_textures

\* C13: in both servers the result of a completed job that was submitted
\* with include_textures = false holds the model entries and no texture
\* entry (neither texture_path nor texture_url).
C13_NoTextureEntryUnlessRequested ==
    \A j \in DOMAIN Store :
        (Store[j].status = "completed" /\ ~IncludeTextures(Store[j]))
        => LET result == Store[j].result
           IN  /\ DOMAIN result \cap {"texture_path", "texture_url"} = {}
               /\ variant = "real"
                     => {"model_glb_path", "model_obj_path"}
                            \subseteq DOMAIN result
               /\ variant = "test" => "model_url" \in DOMAIN result

\* C14: in both servers the face count in the mesh statistics of a job that
\* completes is at most the max_face_count the job was submitted with.
C14_FacesWithinMaxFaceCount ==
    [][\A j \in JobIds :
          (/\ j \in DOMAIN Store
           /\ Store[j].status # "completed"
           /\ Store'[j].status = "completed")
          => IF variant = "real"
             THEN job_status'[j].result.mesh_stats.faces
                      <= task[j].max_face_count
             ELSE /\ jobs'[j].result.metadata.faces
                        <= jobs'[j].parameters.max_face_count
                  /\ jobs'[j].result.metadata.model_stats.faces
                        <= jobs'[j].parameters.max_face_count]_vars

\* The four estimates of an analysis of the real server: the fallback dict
\* holds them at the top, the regular one under detected_features.
Estimates(analysis) ==
    IF "error" \in DOMAIN analysis THEN analysis
    ELSE analysis.detected_features

\* C15: the estimates of analyze_image_advanced (real server) and of
\* analyze_blueprint (python-services server) are never below walls 4,
\* doors 1, windows 2, rooms 1, and are exactly these for an image in which
\* no contour is detected.
C15_EstimateFloors ==
    /\ resp.op = "analyze_image_advanced"
          => LET e == Estimates(resp.value)
                 image == analyze.image
             IN  /\ e.estimated_walls >= 4
                 /\ e.estimated_doors >= 1
                 /\ e.estimated_windows >= 2
                 /\ e.estimated_rooms >= 1
                 /\ (/\ ~AnalysisRaises(image, background_remover)
                     /\ image.large + image.medium + image.small
                            + image.tiny = 0)
                       => /\ e.estimated_walls = 4
                          /\ e.estimated_doors = 1
                          /\ e.estimated_windows = 2
                          /\ e.estimated_rooms = 1
    /\ (resp.op = "analyze_blueprint" /\ ~resp.value.raised)
          => LET e == resp.value.element_counts
             IN  /\ e.walls >= 4 /\ e.doors >= 1
                 /\ e.windows >= 2 /\ e.rooms >= 1
                 /\ analyze.image.contours = 0
                       => e = [walls |-> 4, doors |-> 1, windows |-> 2,
                               rooms |-> 1]

\* The real server has analysed an image without contours, and the
\* estimates are the floors.
C15_Witness ==
    /\ resp.op = "analyze_image_advanced"
    /\ analyze.image.fault = "none"
    /\ resp.value.detected_features.total_contours = 0
    /\ resp.value.detected_features.estimated_walls = 4
    /\ resp.value.detected_features.estimated_doors = 1
    /\ resp.value.detected_features.estimated_windows = 2
    /\ resp.value.detected_features.estimated_rooms = 1

\* C16: analyze_image_advanced of the real server returns an analysis for
\* every image and every step that raises; when a step raised, the analysis
\* is the fallback with walls 8, doors 3, windows 6, rooms 4 and complexity
\* score 50.
C16_AnalysisNeverRaises ==
    /\ (variant = "real" /\ analyze.pc = "returned")
          => /\ resp.op = "analyze_image_advanced"
             /\ "raised" \notin DOMAIN resp.value
             /\ {"estimated_walls", "estimated_doors", "estimated_windows",
                 "estimated_rooms"} \subseteq DOMAIN Estimates(resp.value)
    /\ (/\ resp.op = "analyze_image_advanced"
        /\ AnalysisRaises(analyze.image, background_remover))
          => /\ "raised" \notin DOMAIN resp.value
             /\ resp.value.estimated_walls = 8
             /\ resp.value.estimated_doors = 3
             /\ resp.value.estimated_windows = 6
             /\ resp.value.estimated_rooms = 4
             /\ resp.value.complexity_score = 500

\* The loaded background remover raised on an image with contours, and the
\* fallback was returned.
C16_Witness ==
    /\ resp.op = "analyze_image_advanced"
    /\ background_remover
    /\ analyze.image.fault = "background"
    /\ analyze.image.large = MaxContours
    /\ "error" \in DOMAIN resp.value
    /\ resp.value.estimated_walls = 8

\* C17: when a real job that asked for textures reaches the texture stage
\* while texture_pipeline is None, the stage is passed without raising and
\* without touching the mesh or the job record: the task goes on to the
\* progress-90 write and the save (the witness shows it completed).
C17_MissingTexturePipelineSkipped ==
    [][\A j \in JobIds :
          (/\ variant = "real"
           /\ task[j].pc = "texture"
           /\ task[j].include_textures
           /\ ~texture_pipeline
           /\ task'[j] # task[j])
          => /\ task'[j] = [task[j] EXCEPT !.pc = "w90"]
             /\ job_status' = job_status]_vars

\* A job submitted with include_textures = true has completed, its files
\* written, on a server whose texture pipeline was never loaded.
C17_Witness ==
    \E j \in DOMAIN job_status :
        /\ variant = "real"
        /\ ~texture_pipeline
        /\ model_loaded
        /\ job_status[j].status = "completed"
        /\ job_status[j].result.generation_params.include_textures
        /\ job_status[j].result.model_glb_path \in files
        /\ task[j] = Returned

\* C18: in both servers a step of the background task of job A changes no
\* record but A's: the ids of the store and the records of all other jobs
\* are as before, under every interleaving of the jobs in flight.
C18_TaskWritesOwnRecordOnly ==
    [][\A a \in JobIds :
          (task'[a] # task[a] /\ task[a].pc # "none")
          => /\ DOMAIN Store' = DOMAIN Store
             /\ \A k \in DOMAIN Store \ {a} : Store'[k] = Store[k]]_vars

\* Two jobs are in flight: one has written progress and is suspended, the
\* other has run to its end meanwhile.
C18_Witness ==
    \E a, b \in DOMAIN Store :
        /\ a # b
        /\ task[a].pc \in {"read", "sleep"}
        /\ Store[a].status = "processing"
        /\ task[b] = Returned
        /\ Terminal(Store[b])

\* C19: in the real server a status, result or download request, answered
\* with success or with an error, leaves job_status as it was; the store
\* changes only in a successful submission, which adds the new record, and
\* in a step of a job's own task, which changes that job's record.
C19_ReadsLeaveStore ==
    [][/\ (/\ variant = "real"
           /\ resp = NoResp
           /\ resp'.op \in {"status", "result", "download"})
          => job_status' = job_status
       /\ (variant = "real" /\ job_status' # job_status)
          => \/ /\ resp = NoResp
                /\ resp'.op = "generate3d"
                /\ resp'.code = 200
                /\ \A k \in DOMAIN job_status : job_status'[k] = job_status[k]
             \/ \E j \in DOMAIN job_status :
                   /\ task[j].pc # "none"
                   /\ task'[j] # task[j]
                   /\ resp' = resp
                   /\ \A k \in DOMAIN job_status \ {j} :
                         job_status'[k] = job_status[k]]_vars

\* A download has been answered with a file, a success, while another job
\* is in flight.
C19_Witness ==
    /\ variant = "real"
    /\ resp.op = "download"
    /\ resp.code = 200
    /\ \E k \in DOMAIN job_status :
          k # resp.job_id /\ job_status[k].status = "processing"

\* C20: in the real server a job id that is in job_status stays in it, and
\* its record is never replaced: the keys it holds are kept, created_at
\* keeps its value, and the job does not go back to queued.
C20_JobsAreKept ==
    [][variant = "real"
       => \A j \in DOMAIN job_status :
             /\ j \in DOMAIN job_status'
             /\ DOMAIN job_status[j] \subseteq DOMAIN job_status'[j]
             /\ job_status'[j].created_at = job_status[j].created_at
             /\ job_status'[j].status = "queued"
                   => job_status[j].status = "queued"]_vars

\* Every id has been issued, one job has completed and one has failed, the
\* models have been loaded, and a download has just been answered.
C20_Witness ==
    /\ variant = "real"
    /\ DOMAIN job_status = JobIds
    /\ \E j \in JobIds : job_status[j].status = "completed"
    /\ \E j \in JobIds : job_status[j].status = "failed"
    /\ model_loaded
    /\ resp.op = "download"

\* The job store of each of the three servers.
ServerStore ==
    CASE variant = "real" -> job_status
      [] variant = "test" -> jobs
      [] OTHER -> conversion_jobs

\* C21: in each of the three servers the status of every stored job is one
\* of queued, processing, completed and failed, and the answer to a
\* successful submission that names a status names queued.
C21_StatusValues ==
    /\ \A j \in DOMAIN ServerStore :
          ServerStore[j].status
              \in {"queued", "processing", "completed", "failed"}
    /\ (resp.op = "generate3d" /\ resp.code = 200 /\ "status" \in DOMAIN resp)
          => resp.status = "queued"

\* C22: in the real server a job holds completed_at exactly when it is
\* completed and failed_at exactly when it is failed (so neither while it
\* is queued or processing, and never both), and the write that makes a job
\* completed or failed finds the stamp it writes absent.
C22_TerminalStamps ==
    [][variant = "real"
       => /\ \A j \in DOMAIN job_status' :
                /\ ("completed_at" \in DOMAIN job_status'[j])
                      <=> (job_status'[j].status = "completed")
                /\ ("failed_at" \in DOMAIN job_status'[j])
                      <=> (job_status'[j].status = "failed")
          /\ \A j \in DOMAIN job_status :
                job_status'[j] # job_status[j]
                   => /\ job_status'[j].status = "completed"
                            => "completed_at" \notin DOMAIN job_status[j]
                      /\ job_status'[j].status = "failed"
                            => "failed_at" \notin DOMAIN job_status[j]]_vars

\* The pipelines a call with enable_texture asks for are all loaded.
AlreadyLoaded(enable_texture) ==
    /\ model_loaded
    /\ background_remover
    /\ shape_pipeline
    /\ enable_texture => texture_pipeline

C24_LoadFailureFails ==
    [][variant = "real"
       => /\ \A j \in JobIds :
                /\ (task[j].pc = "ensure" /\ task'[j].pc = "except")
                      => /\ task'[j].exc = "ensure"
                         /\ ~model_loaded /\ ~model_loaded'
                         /\ init_raised'
                         /\ job_status' = job_status
                /\ (task[j].pc = "except" /\ task[j].exc = "ensure"
                    /\ task'[j] # task[j])
                      => /\ task'[j] = Returned
                         /\ job_status'[j].status = "failed"
                         /\ "error" \in DOMAIN job_status'[j]
          /\ (resp = NoResp /\ resp'.op = "load_models")
                => /\ resp'.code \in {200, 500}
                   /\ (\E c \in resp'.log : init_count'[c] = init_count[c])
                         => resp'.code = 500
                   /\ resp'.code = 200
                         => /\ model_loaded'
                            /\ background_remover'
                            /\ shape_pipeline'
                            /\ resp'.texture_enabled => texture_pipeline'
                   /\ resp'.code = 500
                         => init_raised' /\ model_loaded' = model_loaded]_vars

\* The shape pipeline's initialiser has raised in a job's ensure-models
\* stage, after the background remover was loaded: the task is in its
\* except clause, the job is still processing at 10.
C24_Witness ==
    \E j \in DOMAIN job_status :
        /\ variant = "real"
        /\ task[j].pc = "except"
        /\ task[j].exc = "ensure"
        /\ job_status[j].status = "processing"
        /\ job_status[j].progress = 10
        /\ background_remover
        /\ ~shape_pipeline
        /\ ~model_loaded

\* C25: in the python-services server a job is processing before it is
\* completed, and its progress is written only while it is processing:
\* every step that changes a stored job's progress leaves its status
\* "processing", and the step that makes it completed finds it processing.
C25_DemoStatusSequence ==
    [][variant = "services"
       => \A j \in DOMAIN conversion_jobs :
             /\ conversion_jobs'[j].progress # conversion_jobs[j].progress
                   => conversion_jobs'[j].status = "processing"
             /\ (/\ conversion_jobs[j].status # "completed"
                 /\ conversion_jobs'[j].status = "completed")
                   => conversion_jobs[j].status = "processing"]_vars

\* C26: in the python-services server no exception leaves a background
\* task, and a job whose background task has ended is completed or failed.
C26_ConversionErrorsCaptured ==
    variant = "services"
       => \A j \in DOMAIN conversion_jobs :
             /\ task[j].pc # "raised"
             /\ task[j].pc \in {"returned", "raised"}
                   => conversion_jobs[j].status \in {"completed", "failed"}

\* C27: in the python-services server an error answer of /generate3d
\* carries no job id and leaves no record behind: every stored job is one
\* whose submission is still being read or was answered with its job id.
C27_RejectedSubmissionLeavesNoJob ==
    variant = "services"
       => /\ (resp # NoResp /\ resp.op = "generate3d" /\ resp.code # 200)
                => "job_id" \notin DOMAIN resp
          /\ \A j \in DOMAIN conversion_jobs : task[j].pc # "rejected"

\* C28: the real server answers a POST /analyze whose file is not an image
\* with 400, and answers 500 only to a request whose file is an image.
C28_AnalyzeNonImageIs400 ==
    (variant = "real" /\ resp.op = "analyze")
       => /\ ~StartsWithImage(resp.content_type) => resp.code = 400
          /\ resp.code = 500 => StartsWithImage(resp.content_type)

\* C29: what analyze_image_advanced of the real server returns for an
\* image is what it returns for that image whether or not the background
\* remover is loaded, and the call leaves the job stores empty as they were.
C29_AnalysisIgnoresServerState ==
    resp.op = "analyze_image_advanced"
       => /\ \A remover \in BOOLEAN :
                resp.value = analyze_image_advanced(analyze.image, remover)
          /\ job_status = << >>
          /\ jobs = << >>

\* The positions of a real task in the order of the claim: the first write,
\* then each stage after the progress write that announces it, then the
\* final write.
StageOrder ==
    << "scheduled", "read", "w10", "ensure", "w15", "background", "w25",
       "mesh", "w70", "cleanup", "w80", "texture", "w90", "save", "stats",
       "final", "cache" >>

ProgressOrder ==
    << 5, 10, 15, 25, 70, 80, 90, 100 >>

\* C30: a real job's task moves through decode, ensure-models, background
\* removal, mesh generation, cleanup, texturing, saving and statistics in
\* that order, one position at a time, and leaves the order only for its
\* except clause or by returning; the first write makes the job processing
\* at 5, and every later write that leaves it processing or makes it
\* completed writes the next of 5, 10, 15, 25, 70, 80, 90, 100.
C30_StagesInOrder ==
    [][variant = "real"
       => \A j \in DOMAIN job_status :
             /\ task'[j].pc # task[j].pc
                   => \/ \E n \in 1..(Len(StageOrder) - 1) :
                            /\ task[j].pc = StageOrder[n]
                            /\ task'[j].pc = StageOrder[n + 1]
                      \/ /\ task[j].pc \in {"read", "ensure", "background",
                                            "mesh", "cleanup", "texture",
                                            "save", "stats", "cache"}
                         /\ task'[j].pc = "except"
                      \/ /\ task[j].pc \in {"cache", "except"}
                         /\ task'[j] = Returned
             /\ (/\ job_status[j].status = "queued"
                 /\ job_status'[j] # job_status[j])
                   => /\ job_status'[j].status = "processing"
                      /\ job_status'[j].progress = 5
                      /\ task[j].pc = "scheduled"
             /\ (/\ job_status'[j].progress # job_status[j].progress
                 /\ job_status'[j].status \in {"processing", "completed"})
                   => \/ /\ job_status[j].progress = 0
                         /\ job_status'[j].progress = ProgressOrder[1]
                      \/ \E n \in 1..(Len(ProgressOrder) - 1) :
                            /\ job_status[j].progress = ProgressOrder[n]
                            /\ job_status'[j].progress = ProgressOrder[n + 1]
             /\ (/\ job_status[j].status # "completed"
                 /\ job_status'[j].status = "completed")
                   => /\ task[j].pc = "final"
                      /\ job_status[j].progress = 90]_vars

\* A job that asked for textures has gone through every stage: its final
\* write has just been made, with the mesh textured and the files saved.
C30_Witness ==
    \E j \in DOMAIN job_status :
        /\ variant = "real"
        /\ task[j].pc = "cache"
        /\ task[j].include_textures
        /\ task[j].mesh = "textured"
        /\ job_status[j].status = "completed"
        /\ job_status[j].progress = 100
        /\ Path(j, "obj") \in files

\* The files the result of a completed job of the real or the test server
\* refers to as its models (and its processed image).
ResultFiles(j) ==
    IF variant = "real"
    THEN {Store[j].result.model_glb_path, Store[j].result.model_obj_path,
          Store[j].result.image_path}
    ELSE {Store[j].result.model_url}

\* C31: in the real and in the test server the model files (and, in the
\* real server, the processed image) of a completed job's result have been
\* written, under that job's id; and a task in which a write raised takes
\* one more step, which makes the job failed.
C31_CompletedAfterArtifacts ==
    [][(variant = "real" \/ variant = "test")
       => \A j \in DOMAIN Store :
             /\ Store'[j].status = "completed"
                   => /\ ResultFiles(j)' \subseteq files'
                      /\ \A f \in ResultFiles(j)' : f.dir = j
             /\ (/\ task[j].pc \in {"save", "write_model", "write_texture"}
                 /\ task'[j].pc = "except")
                   => Store'[j].status = "processing"
             /\ (task[j].pc = "except" /\ task'[j] # task[j])
                   => /\ Store'[j].status = "failed"
                      /\ task'[j] = Returned]_vars

\* One real job is completed with its three files written, while in
\* another the export of the obj file raised after the glb was written and
\* the job is failed.
C31_Witness ==
    \E j, k \in DOMAIN Store :
        /\ variant = "real"
        /\ Store[j].status = "completed"
        /\ {Path(j, "glb"), Path(j, "obj"), Path(j, "processed.png")}
              \subseteq files
        /\ Store[k].status = "failed"
        /\ "result" \notin DOMAIN Store[k]
        /\ Path(k, "glb") \in files
        /\ Path(k, "obj") \notin files

\* The band of the claims' partition a contour of the given area is in.
Band(area) ==
    IF area > 100 THEN "large"
    ELSE IF area > 50 THEN "medium"
    ELSE IF area > 10 THEN "small" ELSE "none"

\* The number of contours of an image that are in a band.
InBand(image, band) ==
    (IF Band(image.areas.tiny) = band THEN image.tiny ELSE 0)
    + (IF Band(image.areas.small) = band THEN image.small ELSE 0)
    + (IF Band(image.areas.medium) = band THEN image.medium ELSE 0)
    + (IF Band(image.areas.large) = band THEN image.large ELSE 0)

\* C32: when analyze_image_advanced of the real server does not raise, it
\* counts every contour in the band of its area (large above 100, medium
\* above 50 up to 100, small above 10 up to 50, none up to 10), so in at
\* most one band, and returns walls = max(4, L div 2), doors =
\* max(1, M div 3), windows = max(2, S div 2), rooms = max(1, walls div 3).
C32_EstimatesFromBands ==
    (/\ resp.op = "analyze_image_advanced"
     /\ ~AnalysisRaises(analyze.image, background_remover))
       => LET f == resp.value.detected_features
              L == InBand(analyze.image, "large")
              M == InBand(analyze.image, "medium")
              S == InBand(analyze.image, "small")
          IN  /\ f.large_contours = L
              /\ f.medium_contours = M
              /\ f.small_contours = S
              /\ L + M + S + InBand(analyze.image, "none") = f.total_contours
              /\ f.estimated_walls = IF L \div 2 > 4 THEN L \div 2 ELSE 4
              /\ f.estimated_doors = IF M \div 3 > 1 THEN M \div 3 ELSE 1
              /\ f.estimated_windows = IF S \div 2 > 2 THEN S \div 2 ELSE 2
              /\ f.estimated_rooms =
                    IF f.estimated_walls \div 3 > 1
                    THEN f.estimated_walls \div 3 ELSE 1

\* An image whose contours have the areas 10, 50, 100 and 101, the most of
\* each, has been analysed: every estimate is above its floor.
C32_Witness ==
    /\ resp.op = "analyze_image_advanced"
    /\ analyze.image.fault = "none"
    /\ analyze.image.areas =
          [tiny |-> 10, small |-> 50, medium |-> 100, large |-> 101]
    /\ analyze.image.tiny = MaxContours
    /\ resp.value.detected_features.total_contours = 4 * MaxContours
    /\ resp.value.detected_features.large_contours = MaxContours
    /\ resp.value.detected_features.medium_contours = MaxContours
    /\ resp.value.detected_features.small_contours = MaxContours
    /\ resp.value.detected_features.estimated_walls = MaxContours \div 2
    /\ resp.value.detected_features.estimated_walls > 4
    /\ resp.value.detected_features.estimated_doors > 1
    /\ resp.value.detected_features.estimated_windows > 2
    /\ resp.value.detected_features.estimated_rooms > 1

\* C33: when analyze_image_advanced of the real server does not raise, the
\* complexity score is min(100, (total + 2 * large) / 10) (here in tenths),
\* detail_level is high above 70, medium above 40 up to 70 and low up to
\* 40, and the recommendation is 256 and 10 above 70 and 128 and 5 up to 70.
C33_ComplexityScore ==
    (/\ resp.op = "analyze_image_advanced"
     /\ ~AnalysisRaises(analyze.image, background_remover))
       => LET c == resp.value.complexity_analysis
              tenths == resp.value.detected_features.total_contours
                        + 2 * InBand(analyze.image, "large")
          IN  /\ c.complexity_score = IF tenths > 1000 THEN 1000 ELSE tenths
              /\ c.complexity_score <= 1000
              /\ c.detail_level = "high" <=> c.complexity_score > 700
              /\ c.detail_level = "medium"
                    <=> (400 < c.complexity_score /\ c.complexity_score <= 700)
              /\ c.detail_level = "low" <=> c.complexity_score <= 400
              /\ c.recommended_resolution = 256 <=> c.complexity_score > 700
              /\ c.recommended_resolution = 128 <=> c.complexity_score <= 700
              /\ c.recommended_steps = 10 <=> c.complexity_score > 700
              /\ c.recommended_steps = 5 <=> c.complexity_score <= 700

\* An image with more than a thousand contours counted (total plus twice
\* the large ones) has been analysed: the score is the cap, the detail
\* level high.
C33_Witness ==
    /\ resp.op = "analyze_image_advanced"
    /\ analyze.image.fault = "none"
    /\ resp.value.detected_features.total_contours
          + 2 * resp.value.detected_features.large_contours > 1000
    /\ resp.value.complexity_analysis.complexity_score = 1000
    /\ resp.value.complexity_analysis.detail_level = "high"
    /\ resp.value.complexity_analysis.recommended_resolution = 256
    /\ resp.value.complexity_analysis.recommended_steps = 10

\* C34: in the python-services server the record of a completed job holds
\* the result its conversion returned, and a 200 answer of /result for the
\* job is that result (texture_url None when textures were not asked for).
C34_ResultIsTheProducedOne ==
    variant = "services"
       => /\ \A j \in DOMAIN conversion_jobs :
                conversion_jobs[j].status = "completed"
                   => /\ "result" \in DOMAIN conversion_jobs[j]
                      /\ task[j].pc = "returned"
                            => conversion_jobs[j].result = task[j].value
          /\ (resp.op = "result" /\ resp.code = 200)
                => /\ task[resp.job_id].pc = "returned"
                   /\ resp.body = task[resp.job_id].value

\* C35: in the real server a result whose mesh statistics say has_texture
\* comes from a job whose texture stage ran; a loaded pipeline is never
\* unloaded, so the texture pipeline is loaded wherever such a result
\* exists.
C35_HasTextureOnlyIfTextured ==
    variant = "real"
       => \A j \in DOMAIN job_status :
             (/\ "result" \in DOMAIN job_status[j]
              /\ job_status[j].result.mesh_stats.has_texture)
                => texture_pipeline

\* C36: in the real server model_loaded implies that the background
\* remover and the shape pipeline are loaded, also after loads that raised
\* part-way; and a job that is past its ensure-models stage and not yet
\* past the mesh generation finds model_loaded and the shape pipeline set.
C36_LoadedImpliesPipelines ==
    variant = "real"
       => /\ model_loaded => (background_remover /\ shape_pipeline)
          /\ \A j \in DOMAIN job_status :
                task[j].pc \in {"w15", "background", "w25", "mesh"}
                   => (model_loaded /\ shape_pipeline)

\* A load raised in the texture pipeline's initialiser, after the other two
\* were loaded; a later load without texture succeeded, and a job is at its
\* mesh generation.
C36_Witness ==
    \E j \in DOMAIN job_status :
        /\ variant = "real"
        /\ init_raised
        /\ model_loaded
        /\ background_remover
        /\ shape_pipeline
        /\ ~texture_pipeline
        /\ task[j].pc = "mesh"

\* C37, as stated: in every state of the test server a job whose progress
\* is 100 is completed and has its result.
C37_HundredIsCompleted ==
    variant = "test"
       => \A j \in DOMAIN jobs :
             jobs[j].progress = 100
                => /\ jobs[j].status = "completed"
                   /\ "result" \in DOMAIN jobs[j]

\* C37, corrected: in every state of the test server in which a request
\* can be served (no task holds the event loop), a job whose progress is
\* 100 is completed, has its result and is never written again; and a
\* /status answer with progress 100 says completed and carries the result.
C37_PolledHundredIsCompleted ==
    [][variant = "test"
       => \A j \in DOMAIN jobs' :
             /\ (loop' = 0 /\ jobs'[j].progress = 100)
                   => /\ jobs'[j].status = "completed"
                      /\ "result" \in DOMAIN jobs'[j]
             /\ (j \in DOMAIN jobs /\ loop = 0 /\ jobs[j].progress = 100)
                   => jobs'[j] = jobs[j]
             /\ (/\ resp'.op = "status"
                 /\ resp'.code = 200
                 /\ resp'.body.progress = 100)
                   => /\ resp'.body.status = "completed"
                      /\ "result" \in DOMAIN resp'.body]_vars

\* A poller is answered progress 100 for a completed job, while another
\* job, whose last stage wrote progress 100 too, is failed because its
\* texture file could not be written.
C37_Witness ==
    \E j, k \in DOMAIN jobs :
        /\ variant = "test"
        /\ resp.op = "status"
        /\ resp.code = 200
        /\ resp.job_id = j
        /\ resp.body.progress = 100
        /\ resp.body.status = "completed"
        /\ jobs[k].status = "failed"
        /\ Path(k, "model.glb") \in files
        /\ Path(k, "texture.png") \notin files

====
